---- MODULE Spec2Model ----
(***************************************************************************)
(* Model of board/safety/safety_subaru_legacy.h: the Subaru "legacy"       *)
(* (pre-global) safety hooks of panda.  One action per hook: init, rx, tx  *)
(* and fwd.  The hooks run to completion one at a time (single-threaded    *)
(* dispatch), so each hook is one atomic action.                           *)
(***************************************************************************)
EXTENDS Integers, Sequences, FiniteSets, TLC

VARIABLES
  controls_allowed,             \* global: actuation permitted
  cruise_engaged_prev,          \* global: cruise flag of the previous 0x144 frame
  relay_malfunction,            \* global: relay fault latch
  subaru_l_flip_driver_torque,  \* line 29
  torque_driver,                \* struct sample_t: the driver torque samples held, newest first
  vehicle_moving, brake_pressed, gas_pressed,
  desired_torque_last, rt_torque_last, ts_last,   \* rate-limiter state
  now,                          \* last value read from the microsecond timer
  call,                         \* the hook call that just returned: op, frame, arg, ret, locals
  steer_accepted                \* history: torque of the last accepted steering command
                                \* in the current controls-allowed period (<<>> if none)

vars == << controls_allowed, cruise_engaged_prev, relay_malfunction,
           subaru_l_flip_driver_torque, torque_driver, vehicle_moving,
           brake_pressed, gas_pressed, desired_torque_last, rt_torque_last,
           ts_last, now, call, steer_accepted >>

-----------------------------------------------------------------------------
(* Program constants, lines 1-11 and 28 *)
SUBARU_L_MAX_STEER == 2047
SUBARU_L_MAX_RT_DELTA == 940
SUBARU_L_RT_INTERVAL == 250000
SUBARU_L_MAX_RATE_UP == 50
SUBARU_L_MAX_RATE_DOWN == 70
SUBARU_L_DRIVER_TORQUE_ALLOWANCE == 60
SUBARU_L_DRIVER_TORQUE_FACTOR == 10
SUBARU_L_STANDSTILL_THRSLD == 20
SUBARU_L_BRAKE_THRSLD == 2
SUBARU_L_PARAM_FLIP_DRIVER_TORQUE == 1

(* Message addresses used by the hooks *)
ADDR_STEER_TORQUE == 881      \* 0x371
ADDR_CRUISE == 324            \* 0x144
ADDR_WHEEL == 212             \* 0xD4
ADDR_BRAKE == 209             \* 0xD1
ADDR_THROTTLE == 320          \* 0x140
ADDR_ES_THROTTLE == 353       \* 0x161
ADDR_ES_LKAS == 356           \* 0x164

\* variant: the throttle message is allowed on bus 0 instead of bus 2
SUBARU_L_TX_MSGS_ThrottleBus0 ==
  { [addr |-> 353, bus |-> 0, len |-> 8],
    [addr |-> 356, bus |-> 0, len |-> 8],
    [addr |-> 320, bus |-> 0, len |-> 8] }

(* line 13 *)
SUBARU_L_TX_MSGS ==
  { [addr |-> ADDR_ES_THROTTLE, bus |-> 0, len |-> 8],
    [addr |-> ADDR_ES_LKAS,     bus |-> 0, len |-> 8],
    [addr |-> ADDR_THROTTLE,    bus |-> 2, len |-> 8] }

(* lines 17-23: the address-check table handed to the external validator *)
subaru_l_rx_checks ==
  << [addr |-> ADDR_THROTTLE,     bus |-> 0, len |-> 8, expected_timestep |-> 10000],
     [addr |-> ADDR_STEER_TORQUE, bus |-> 0, len |-> 8, expected_timestep |-> 20000],
     [addr |-> ADDR_CRUISE,       bus |-> 0, len |-> 8, expected_timestep |-> 50000] >>

-----------------------------------------------------------------------------
(* Bounds of the model *)
RampSteps == 2                \* commanded torques 50*k, k up to RampSteps
Tick == 100000                \* shortest time between two tx calls (us)
LongTick == 300000            \* longest time between two tx calls (us)
StartBefore == 300000         \* the timer starts this long before it wraps (us)
MaxElapsed == 400000          \* the timer is followed this far past StartTime

-----------------------------------------------------------------------------
(* Arithmetic helpers of the safety layer *)
MAX(a, b) == IF a > b THEN a ELSE b
MIN(a, b) == IF a < b THEN a ELSE b

Pow2(n) == 2 ^ n

\* d >> n and d & (2^n - 1) on non-negative integers
Shr(d, n) == d \div Pow2(n)
Shl(d, n) == d * Pow2(n)
LowBits(d, n) == d % Pow2(n)

to_signed(d, bits) ==
  IF d >= Pow2(MAX(bits - 1, 0)) THEN d - Pow2(MAX(bits, 0)) ELSE d

(* uint32_t values are pairs << high 16 bits, low 16 bits >>; arithmetic is  *)
(* modulo 2^32                                                              *)
HALF == 2 ^ 16
U32Of(n) == << (n \div HALF) % HALF, n % HALF >>
U32Add(a, b) ==
  LET lo == a[2] + b[2]
  IN << (a[1] + b[1] + (lo \div HALF)) % HALF, lo % HALF >>
U32Sub(a, b) ==
  LET lo == a[2] - b[2]
  IN << (a[1] - b[1] + (lo \div HALF)) % HALF, lo % HALF >>
\* a >> n for 1 <= n <= 16, and a & (2^n - 1) for n <= 16, as integers
U32Shr(a, n) == a[1] * Pow2(16 - n) + (a[2] \div Pow2(n))
U32LowBits(a, n) == a[2] % Pow2(n)
U32Gt(a, b) == (a[1] > b[1]) \/ (a[1] = b[1] /\ a[2] > b[2])

(* Frame accessors: a frame is [addr, bus, len, data], data a tuple of 8 bytes *)
GET_ADDR(f) == f.addr
GET_BUS(f) == f.bus
GET_LEN(f) == f.len
GET_BYTE(f, i) == f.data[i + 1]
GET_BYTES_04(f) ==
  << GET_BYTE(f, 2) + Shl(GET_BYTE(f, 3), 8), GET_BYTE(f, 0) + Shl(GET_BYTE(f, 1), 8) >>
GET_BYTES_48(f) ==
  << GET_BYTE(f, 6) + Shl(GET_BYTE(f, 7), 8), GET_BYTE(f, 4) + Shl(GET_BYTE(f, 5), 8) >>
RECURSIVE BitAnd(_, _)
BitAnd(a, b) ==
  IF a = 0 \/ b = 0 THEN 0
  ELSE (a % 2) * (b % 2) + 2 * BitAnd(a \div 2, b \div 2)

\* the value is converted to the mask's type, uint16_t
GET_FLAG(value, mask) == BitAnd(value % 65536, mask) = mask

get_ts_elapsed(ts, ts_l) == U32Sub(ts, ts_l)

msg_allowed(f, msg_list) ==
  \E m \in msg_list :
    GET_ADDR(f) = m.addr /\ GET_BUS(f) = m.bus /\ GET_LEN(f) = m.len

(* struct sample_t: the tracker holds the most recent valid sample; min and *)
(* max are taken over what it holds                                        *)
RECURSIVE SeqMin(_)
SeqMin(s) == IF Len(s) = 1 THEN s[1] ELSE MIN(s[1], SeqMin(Tail(s)))
RECURSIVE SeqMax(_)
SeqMax(s) == IF Len(s) = 1 THEN s[1] ELSE MAX(s[1], SeqMax(Tail(s)))

update_sample(sample, sample_new) ==
  << sample_new >> \o SubSeq(sample, 1, Len(sample) - 1)

max_limit_check(val, MAX_VAL, MIN_VAL) == (val > MAX_VAL) \/ (val < MIN_VAL)

driver_limit_check(val, val_last, val_driver, MAX_VAL, MAX_RATE_UP, MAX_RATE_DOWN, MAX_ALLOWANCE, DRIVER_FACTOR) ==
  LET highest_allowed_rl == MAX(val_last, 0) + MAX_RATE_UP
      lowest_allowed_rl == MIN(val_last, 0) - MAX_RATE_UP
      driver_max_limit == MAX_VAL + (MAX_ALLOWANCE + SeqMax(val_driver)) * DRIVER_FACTOR
      driver_min_limit == -MAX_VAL + (-MAX_ALLOWANCE + SeqMin(val_driver)) * DRIVER_FACTOR
      highest_allowed == MIN(highest_allowed_rl,
                             MAX(val_last - MAX_RATE_DOWN, MAX(driver_max_limit, 0)))
      lowest_allowed == MAX(lowest_allowed_rl,
                            MIN(val_last + MAX_RATE_DOWN, MIN(driver_min_limit, 0)))
  IN (val < lowest_allowed) \/ (val > highest_allowed)

rt_rate_limit_check(val, val_last, MAX_RT_DELTA) ==
  LET highest_val == MAX(val_last, 0) + MAX_RT_DELTA
      lowest_val == MIN(val_last, 0) - MAX_RT_DELTA
  IN (val < lowest_val) \/ (val > highest_val)

-----------------------------------------------------------------------------
(* Inputs: the frames and parameters offered to the hooks *)
Bytes(b0, b1, b2, b3, b4, b5, b6, b7) == << b0, b1, b2, b3, b4, b5, b6, b7 >>

Frame(a, b, l, d) == [addr |-> a, bus |-> b, len |-> l, data |-> d]

NoFrame == Frame(0, 0, 0, Bytes(0, 0, 0, 0, 0, 0, 0, 0))

\* an ES_LKAS payload whose 13-bit field decodes to desired torque t;
\* junk fills the bits around the field
LkasData(t, junk) ==
  LET raw == (-t) % 8192
  IN Bytes(junk, raw % 256, (raw \div 256) + 32 * (junk % 8), junk, 0, 0, 0, 0)

\* a Steering_Torque payload whose 11-bit field is the two's complement of t
DriverData(t, junk) ==
  LET raw == t % 2048
  IN Bytes(0, 0, 0, 32 * (raw % 8) + (junk % 32), raw \div 8, 0, 0, 0)

WheelData(fr, rl) ==
  Bytes(255, 255, fr % 256, fr \div 256, rl % 256, rl \div 256, 255, 255)

DesiredTorques ==
  { 50 * k : k \in -1 .. RampSteps } \cup { 2100, -2100, 4096 }

TxFrames ==
  { Frame(ADDR_ES_LKAS, 0, 8, LkasData(t, 0)) : t \in DesiredTorques }
  \cup { Frame(ADDR_ES_LKAS, 0, 8, LkasData(50, 255)),
         Frame(ADDR_ES_LKAS, 1, 8, LkasData(50, 0)),
         Frame(ADDR_ES_LKAS, 0, 4, LkasData(0, 0)),
         Frame(ADDR_ES_LKAS, 2, 8, LkasData(2100, 0)),
         Frame(ADDR_ES_THROTTLE, 0, 8, Bytes(1, 2, 3, 4, 5, 6, 7, 8)),
         Frame(ADDR_ES_THROTTLE, 2, 8, Bytes(0, 0, 0, 0, 0, 0, 0, 0)),
         Frame(ADDR_THROTTLE, 2, 8, Bytes(9, 0, 0, 0, 0, 0, 0, 0)),
         Frame(ADDR_THROTTLE, 0, 8, Bytes(9, 0, 0, 0, 0, 0, 0, 0)),
         Frame(ADDR_THROTTLE, 2, 7, Bytes(9, 0, 0, 0, 0, 0, 0, 0)),
         Frame(ADDR_CRUISE, 0, 8, Bytes(0, 0, 0, 0, 0, 0, 2, 0)) }

RxFrames ==
  { Frame(ADDR_STEER_TORQUE, 0, 8, DriverData(0, 31)),
    Frame(ADDR_STEER_TORQUE, 0, 8, DriverData(-300, 0)),
    Frame(ADDR_CRUISE, 0, 8, Bytes(0, 0, 0, 0, 0, 0, 2, 0)),
    Frame(ADDR_CRUISE, 0, 8, Bytes(0, 0, 0, 0, 0, 0, 253, 0)),
    Frame(ADDR_CRUISE, 2, 8, Bytes(0, 0, 0, 0, 0, 0, 2, 0)),
    Frame(ADDR_ES_LKAS, 0, 8, LkasData(0, 0)) }

MotionFrames ==
  { Frame(ADDR_WHEEL, 0, 8, WheelData(30, 20)),
    Frame(ADDR_WHEEL, 0, 8, WheelData(10, 20)),
    Frame(ADDR_WHEEL, 0, 8, WheelData(20, 21)),
    Frame(ADDR_BRAKE, 0, 8, Bytes(0, 0, 3, 0, 0, 0, 0, 0)),
    Frame(ADDR_BRAKE, 0, 8, Bytes(0, 0, 2, 0, 0, 0, 0, 0)),
    Frame(ADDR_THROTTLE, 0, 8, Bytes(1, 0, 0, 0, 0, 0, 0, 0)),
    Frame(ADDR_THROTTLE, 0, 8, Bytes(0, 7, 0, 0, 0, 0, 0, 0)) }

MotionRxFrames ==
  MotionFrames
  \cup { Frame(ADDR_CRUISE, 0, 8, Bytes(0, 0, 0, 0, 0, 0, 2, 0)),
         Frame(ADDR_CRUISE, 0, 8, Bytes(0, 0, 0, 0, 0, 0, 253, 0)),
         Frame(ADDR_STEER_TORQUE, 0, 8, DriverData(-300, 0)) }

MotionTxFrames ==
  { Frame(ADDR_ES_LKAS, 0, 8, LkasData(50, 0)),
    Frame(ADDR_ES_THROTTLE, 0, 8, Bytes(1, 2, 3, 4, 5, 6, 7, 8)) }

MotionFwdFrames ==
  { Frame(ADDR_THROTTLE, 0, 8, Bytes(0, 0, 0, 0, 0, 0, 0, 0)) }

FwdFrames ==
  { Frame(a, 0, 8, Bytes(0, 0, 0, 0, 0, 0, 0, 0)) :
      a \in { ADDR_THROTTLE, ADDR_ES_THROTTLE, ADDR_ES_LKAS, ADDR_CRUISE } }

FwdBuses == { 0, 1, 2 }

InitParams == { 0, 1, 2 }

TimeSteps == { Tick, LongTick }

-----------------------------------------------------------------------------
(* The record of the hook call that just returned: the hook, its frame and *)
(* other argument, the value returned, and for tx the hook's locals.       *)
Returned(o, f, a, r) ==
  [op |-> o, frame |-> f, arg |-> a, ret |-> r, checks |-> << >>,
   desired_torque |-> 0, violation |-> FALSE]

StartTime == U32Sub(U32Of(0), U32Of(StartBefore))

Bool2Int(b) == IF b THEN 1 ELSE 0

-----------------------------------------------------------------------------
(* subaru_legacy_init, lines 172-178 *)
relay_malfunction_reset == FALSE

\* variant: the relay-fault latch is not cleared (line 174 missing)
subaru_legacy_init_NoRelayReset(param) ==
  /\ controls_allowed' = FALSE
  /\ subaru_l_flip_driver_torque' = GET_FLAG(param, SUBARU_L_PARAM_FLIP_DRIVER_TORQUE)
  /\ call' = [Returned("init", NoFrame, param, 0) EXCEPT !.checks = subaru_l_rx_checks]
  /\ steer_accepted' = << >>
  /\ UNCHANGED << relay_malfunction, cruise_engaged_prev, torque_driver, vehicle_moving,
                  brake_pressed, gas_pressed, desired_torque_last, rt_torque_last,
                  ts_last, now >>

\* variant: controls_allowed is not cleared (line 173 missing)
subaru_legacy_init_NoControlsReset(param) ==
  /\ relay_malfunction' = relay_malfunction_reset
  /\ subaru_l_flip_driver_torque' = GET_FLAG(param, SUBARU_L_PARAM_FLIP_DRIVER_TORQUE)
  /\ call' = [Returned("init", NoFrame, param, 0) EXCEPT !.checks = subaru_l_rx_checks]
  /\ UNCHANGED << controls_allowed, steer_accepted, cruise_engaged_prev, torque_driver,
                  vehicle_moving, brake_pressed, gas_pressed, desired_torque_last,
                  rt_torque_last, ts_last, now >>

\* variant: init also forgets the previous cruise flag
subaru_legacy_init_ClearsCruisePrev(param) ==
  /\ controls_allowed' = FALSE
  /\ relay_malfunction' = relay_malfunction_reset
  /\ subaru_l_flip_driver_torque' = GET_FLAG(param, SUBARU_L_PARAM_FLIP_DRIVER_TORQUE)
  /\ cruise_engaged_prev' = FALSE
  /\ call' = [Returned("init", NoFrame, param, 0) EXCEPT !.checks = subaru_l_rx_checks]
  /\ steer_accepted' = << >>
  /\ UNCHANGED << torque_driver, vehicle_moving, brake_pressed, gas_pressed,
                  desired_torque_last, rt_torque_last, ts_last, now >>

subaru_legacy_init(param) ==
  /\ controls_allowed' = FALSE
  /\ relay_malfunction' = relay_malfunction_reset
  /\ subaru_l_flip_driver_torque' = GET_FLAG(param, SUBARU_L_PARAM_FLIP_DRIVER_TORQUE)
  /\ call' = [Returned("init", NoFrame, param, 0) EXCEPT !.checks = subaru_l_rx_checks]
  /\ steer_accepted' = << >>
  /\ UNCHANGED << cruise_engaged_prev, torque_driver, vehicle_moving, brake_pressed,
                  gas_pressed, desired_torque_last, rt_torque_last, ts_last, now >>

-----------------------------------------------------------------------------
(* subaru_legacy_rx_hook, lines 31-79 *)

\* lines 40-44
RxTorqueDriverNew(f, flip) ==
  LET raw == Shr(GET_BYTE(f, 3), 5) + Shl(GET_BYTE(f, 4), 3)
      signed == to_signed(raw, 11)
  IN IF flip THEN -1 * signed ELSE signed

\* line 50
RxCruiseEngaged(f) == LowBits(Shr(GET_BYTE(f, 6), 1), 1)

\* variant: controls are never exited on cruise off (lines 54-56 missing)
RxCruiseControls_NoExit(cruise_engaged, engaged_prev, allowed) ==
  IF cruise_engaged = 1 /\ ~engaged_prev THEN TRUE ELSE allowed

\* variant: controls are entered on the level of the cruise bit, not its edge
RxCruiseControls_NoEdge(cruise_engaged, engaged_prev, allowed) ==
  cruise_engaged = 1

\* lines 51-56
RxCruiseControls(cruise_engaged, engaged_prev, allowed) ==
  LET after_edge == IF cruise_engaged = 1 /\ ~engaged_prev THEN TRUE ELSE allowed
  IN IF cruise_engaged = 0 THEN FALSE ELSE after_edge

\* variant: the threshold itself counts as moving
RxVehicleMoving_AtLeast(f) ==
  LET fr == LowBits(U32Shr(GET_BYTES_04(f), 16), 16)
      rl == U32LowBits(GET_BYTES_48(f), 16)
  IN ((fr + rl) \div 2) >= SUBARU_L_STANDSTILL_THRSLD

\* lines 62-65
RxVehicleMoving(f) ==
  LET fr == LowBits(U32Shr(GET_BYTES_04(f), 16), 16)
      rl == U32LowBits(GET_BYTES_48(f), 16)
  IN ((fr + rl) \div 2) > SUBARU_L_STANDSTILL_THRSLD

\* line 69
RxBrakePressed(f) == GET_BYTE(f, 2) > SUBARU_L_BRAKE_THRSLD

\* line 73
RxGasPressed(f) == GET_BYTE(f, 0) # 0

\* the liveness tracker fed on line 76: a steering command seen on the
\* vehicle bus after the relay has had time to switch latches the fault
generic_rx_checks(stock_ecu_detected, relay_timeout, malfunction) ==
  malfunction \/ (stock_ecu_detected /\ relay_timeout)

\* variant: the validator's verdict is not consulted
RxAccepted_AnyVerdict(f, valid) == GET_BUS(f) = 0

\* line 36
RxAccepted(f, valid) == valid /\ (GET_BUS(f) = 0)

subaru_legacy_rx_hook(f, valid, relay_timeout) ==
  LET addr == GET_ADDR(f)
      upd == RxAccepted(f, valid)
      allowed == IF upd /\ addr = ADDR_CRUISE
                 THEN RxCruiseControls(RxCruiseEngaged(f), cruise_engaged_prev,
                                       controls_allowed)
                 ELSE controls_allowed
  IN
  /\ torque_driver' = IF upd /\ addr = ADDR_STEER_TORQUE
                       THEN update_sample(torque_driver,
                              RxTorqueDriverNew(f, subaru_l_flip_driver_torque))
                       ELSE torque_driver
  /\ controls_allowed' = allowed
  /\ cruise_engaged_prev' = IF upd /\ addr = ADDR_CRUISE
                             THEN RxCruiseEngaged(f) = 1
                             ELSE cruise_engaged_prev
  /\ vehicle_moving' = IF upd /\ addr = ADDR_WHEEL
                        THEN RxVehicleMoving(f) ELSE vehicle_moving
  /\ brake_pressed' = IF upd /\ addr = ADDR_BRAKE
                       THEN RxBrakePressed(f) ELSE brake_pressed
  /\ gas_pressed' = IF upd /\ addr = ADDR_THROTTLE
                     THEN RxGasPressed(f) ELSE gas_pressed
  /\ relay_malfunction' = IF upd
                           THEN generic_rx_checks(addr = ADDR_ES_LKAS, relay_timeout,
                                                  relay_malfunction)
                           ELSE relay_malfunction
  /\ call' = Returned("rx", f, Bool2Int(valid), Bool2Int(valid))
  /\ steer_accepted' = IF allowed THEN steer_accepted ELSE << >>
  /\ UNCHANGED << subaru_l_flip_driver_torque, desired_torque_last, rt_torque_last,
                  ts_last, now >>

-----------------------------------------------------------------------------
(* subaru_legacy_tx_hook, lines 81-143 *)

\* lines 95 and 99
TxDesiredTorque(f) ==
  -1 * to_signed(LowBits(U32Shr(GET_BYTES_04(f), 8), 13), 13)

\* lines 104-115: the three checks, OR-combined, made when controls are allowed
TxChecks(desired_torque, torque_last, driver, rt_last) ==
  \/ max_limit_check(desired_torque, SUBARU_L_MAX_STEER, -SUBARU_L_MAX_STEER)
  \/ driver_limit_check(desired_torque, torque_last, driver,
        SUBARU_L_MAX_STEER, SUBARU_L_MAX_RATE_UP, SUBARU_L_MAX_RATE_DOWN,
        SUBARU_L_DRIVER_TORQUE_ALLOWANCE, SUBARU_L_DRIVER_TORQUE_FACTOR)
  \/ rt_rate_limit_check(desired_torque, rt_last, SUBARU_L_MAX_RT_DELTA)

\* variant: torque is not refused while controls are off (lines 126-128 missing)
TxViolation_NoControlsCheck(allowed, desired_torque, torque_last, driver, rt_last) ==
  allowed /\ TxChecks(desired_torque, torque_last, driver, rt_last)

\* lines 96-128: the value of violation
TxViolation(allowed, desired_torque, torque_last, driver, rt_last) ==
  IF allowed
  THEN TxChecks(desired_torque, torque_last, driver, rt_last)
  ELSE desired_torque # 0

\* variant: the anchor never rolls forward (lines 119-122 missing)
TxRtDue_Never(ts, ts_l) == FALSE

\* variant: the elapsed time is taken the wrong way round
TxRtDue_Reversed(ts, ts_l) == U32Gt(get_ts_elapsed(ts_l, ts), U32Of(SUBARU_L_RT_INTERVAL))

\* lines 118-119: the anchor rolls forward
TxRtDue(ts, ts_l) == U32Gt(get_ts_elapsed(ts, ts_l), U32Of(SUBARU_L_RT_INTERVAL))

\* variant: the limiter is reset on a violation only
TxReset_ViolationOnly(violation, allowed) == violation

\* variant: the limiter is never reset (lines 131-135 missing)
TxReset_Never(violation, allowed) == FALSE

\* line 131: the limiter is reset
TxReset(violation, allowed) == violation \/ ~allowed

\* variant: a violation does not clear tx (lines 137-139 missing)
TxVerdict_NoViolation(f, malfunction, steer_violation) ==
  IF malfunction \/ ~msg_allowed(f, SUBARU_L_TX_MSGS) THEN 0 ELSE 1

\* lines 82-91 and 137-139: the value returned
TxVerdict(f, malfunction, steer_violation) ==
  LET tx0 == 1
      tx1 == IF ~msg_allowed(f, SUBARU_L_TX_MSGS) THEN 0 ELSE tx0
      tx2 == IF malfunction THEN 0 ELSE tx1
  IN IF steer_violation THEN 0 ELSE tx2

\* variant: every outbound frame is taken for a steering command
TxIsSteer_Any(f) == TRUE

\* variant: the steering checks are made only for a frame on the allow-list
TxIsSteer_AllowedOnly(f) ==
  GET_ADDR(f) = ADDR_ES_LKAS /\ msg_allowed(f, SUBARU_L_TX_MSGS)

\* line 94
TxIsSteer(f) == GET_ADDR(f) = ADDR_ES_LKAS

subaru_legacy_tx_hook(f, ts) ==
  LET steer == TxIsSteer(f)
      desired_torque == TxDesiredTorque(f)
      violation == steer /\ TxViolation(controls_allowed, desired_torque,
                                         desired_torque_last, torque_driver,
                                         rt_torque_last)
      roll == controls_allowed /\ TxRtDue(ts, ts_last)
      reset == TxReset(violation, controls_allowed)
      tx == TxVerdict(f, relay_malfunction, violation)
  IN
  /\ desired_torque_last' =
       IF ~steer THEN desired_torque_last
       ELSE IF reset THEN 0
       ELSE IF controls_allowed THEN desired_torque
       ELSE desired_torque_last
  /\ rt_torque_last' =
       IF ~steer THEN rt_torque_last
       ELSE IF reset THEN 0
       ELSE IF roll THEN desired_torque
       ELSE rt_torque_last
  /\ ts_last' =
       IF ~steer THEN ts_last
       ELSE IF reset \/ roll THEN ts
       ELSE ts_last
  /\ now' = IF steer THEN ts ELSE now
  /\ call' = [Returned("tx", f, ts, tx) EXCEPT
                !.desired_torque = IF GET_ADDR(f) = ADDR_ES_LKAS THEN desired_torque ELSE 0,
                !.violation = violation]
  /\ steer_accepted' =
       IF steer /\ controls_allowed /\ tx = 1 THEN << desired_torque >>
       ELSE steer_accepted
  /\ UNCHANGED << controls_allowed, cruise_engaged_prev, relay_malfunction,
                  subaru_l_flip_driver_torque, torque_driver, vehicle_moving,
                  brake_pressed, gas_pressed >>

-----------------------------------------------------------------------------
(* subaru_legacy_fwd_hook, lines 145-170 *)

\* variant: forwarding ignores the relay fault (line 149 missing)
FwdBus_NoRelay(bus_num, addr, malfunction) ==
  IF bus_num = 0 /\ addr # ADDR_THROTTLE THEN 2
  ELSE IF bus_num = 2 /\ addr # ADDR_ES_THROTTLE /\ addr # ADDR_ES_LKAS THEN 0
  ELSE -1

\* variant: the steering command is not blocked from the camera bus
FwdBus_LkasForwarded(bus_num, addr, malfunction) ==
  IF malfunction THEN -1
  ELSE IF bus_num = 0 /\ addr # ADDR_THROTTLE THEN 2
  ELSE IF bus_num = 2 /\ addr # ADDR_ES_THROTTLE THEN 0
  ELSE -1

FwdBus(bus_num, addr, malfunction) ==
  LET from0 == IF bus_num = 0 /\ ~(addr = ADDR_THROTTLE) THEN 2 ELSE -1
      from2 == IF bus_num = 2 /\ ~((addr = ADDR_ES_THROTTLE) \/ (addr = ADDR_ES_LKAS))
               THEN 0 ELSE from0
  IN IF ~malfunction THEN from2 ELSE -1

subaru_legacy_fwd_hook(bus_num, f) ==
  /\ call' = Returned("fwd", f, bus_num, FwdBus(bus_num, GET_ADDR(f), relay_malfunction))
  /\ UNCHANGED << controls_allowed, cruise_engaged_prev, relay_malfunction,
                  subaru_l_flip_driver_torque, torque_driver, vehicle_moving,
                  brake_pressed, gas_pressed, desired_torque_last, rt_torque_last,
                  ts_last, now, steer_accepted >>

-----------------------------------------------------------------------------
(* The state before the first call: zero-initialised globals *)
Init ==
  /\ controls_allowed = FALSE
  /\ cruise_engaged_prev = FALSE
  /\ relay_malfunction = FALSE
  /\ subaru_l_flip_driver_torque = FALSE
  /\ torque_driver = << 0 >>
  /\ vehicle_moving = FALSE
  /\ brake_pressed = FALSE
  /\ gas_pressed = FALSE
  /\ desired_torque_last = 0
  /\ rt_torque_last = 0
  /\ ts_last = U32Of(0)
  /\ now = StartTime
  /\ call = [op |-> "none", frame |-> NoFrame, arg |-> 0, ret |-> 0,
             checks |-> << >>, desired_torque |-> 0, violation |-> FALSE]
  /\ steer_accepted = << >>

\* the timer read on line 97, some time after the previous read
TimerReads ==
  { U32Add(now, U32Of(dt)) : dt \in TimeSteps }

TimerInRange(ts) == ~U32Gt(U32Sub(ts, StartTime), U32Of(MaxElapsed))

\* whether the relay has had time to switch matters only to line 76
RelayTimeouts(f, valid) ==
  IF RxAccepted(f, valid) /\ GET_ADDR(f) = ADDR_ES_LKAS THEN BOOLEAN ELSE { FALSE }

InitCall == \E param \in InitParams : subaru_legacy_init(param)

RxCallOf(frames) ==
  \E f \in frames, valid \in BOOLEAN :
    \E relay_timeout \in RelayTimeouts(f, valid) :
      subaru_legacy_rx_hook(f, valid, relay_timeout)

TxCallOf(frames) ==
  \E f \in frames, ts \in TimerReads :
    /\ TimerInRange(ts)
    /\ subaru_legacy_tx_hook(f, ts)

FwdCallOf(buses, frames) ==
  \E bus_num \in buses, f \in frames : subaru_legacy_fwd_hook(bus_num, f)

RxCall == RxCallOf(RxFrames)
TxCall == TxCallOf(TxFrames)
FwdCall == FwdCallOf(FwdBuses, FwdFrames)

Next == InitCall \/ RxCall \/ TxCall \/ FwdCall

Spec == Init /\ [][Next]_vars

(* The same hooks offered the wheel-speed, brake and throttle frames, with *)
(* fewer steering commands and forwarded frames                            *)
MotionRxCall == RxCallOf(MotionRxFrames)
MotionTxCall == TxCallOf(MotionTxFrames)
MotionFwdCall == FwdCallOf({ 0 }, MotionFwdFrames)

NextMotion == InitCall \/ MotionRxCall \/ MotionTxCall \/ MotionFwdCall

SpecMotion == Init /\ [][NextMotion]_vars

-----------------------------------------------------------------------------
(* Properties *)

SteerTx == call.op = "tx" /\ GET_ADDR(call.frame) = ADDR_ES_LKAS

\* the rx hook has just processed a valid cruise-status frame from bus 0
\* whose engaged bit (bit 1 of byte 6) is b
CruiseRx(c, b) ==
  /\ c.op = "rx" /\ c.ret = 1
  /\ c.frame.addr = 324 /\ c.frame.bus = 0
  /\ (c.frame.data[7] \div 2) % 2 = b

(* C1: the tx hook never returns 1 for a steering-command frame whose      *)
(* decoded desired torque exceeds MAX_STEER = 2047 in magnitude, whether   *)
(* controls are allowed or not.                                            *)
C1_NoTorqueAboveMaxSteer ==
  (SteerTx /\ (call.desired_torque > 2047 \/ call.desired_torque < -2047))
    => call.ret = 0

C1_Witness ==
  /\ SteerTx /\ controls_allowed /\ ~relay_malfunction
  /\ msg_allowed(call.frame, SUBARU_L_TX_MSGS)
  /\ call.desired_torque = 4096
  /\ call.ret = 0

(* C2: while controls_allowed is false, a tx call on a steering-command    *)
(* frame with nonzero desired torque returns 0, for every frame, bus and   *)
(* relay state.  (The tx hook leaves controls_allowed as it was.)          *)
C2_NoTorqueWithoutControls ==
  (SteerTx /\ ~controls_allowed /\ call.desired_torque # 0) => call.ret = 0

C2_Witness ==
  /\ SteerTx /\ ~controls_allowed /\ ~relay_malfunction
  /\ msg_allowed(call.frame, SUBARU_L_TX_MSGS)
  /\ call.desired_torque = 50
  /\ call.ret = 0

(* C3 as stated: at the moment the rx hook turns controls_allowed from     *)
(* false to true, desired_torque_last = 0 and rt_torque_last = 0.          *)
C3_ReengageFromZero ==
  [][ (~controls_allowed /\ controls_allowed')
        => (desired_torque_last = 0 /\ rt_torque_last = 0) ]_vars

(* C4 as stated: an accepted steering command, sent with controls allowed, *)
(* passes the driver-aware rate check against the previous accepted        *)
(* steering command of the same controls-allowed period, whatever steering *)
(* frames were denied in between.                                          *)
C4_AcceptedStepsRateLimited ==
  [][ ( /\ call'.op = "tx" /\ GET_ADDR(call'.frame) = ADDR_ES_LKAS
        /\ call'.ret = 1
        /\ controls_allowed
        /\ steer_accepted # << >> )
      => ~driver_limit_check(call'.desired_torque, steer_accepted[1], torque_driver,
            2047, 50, 70, 60, 10) ]_vars

(* C5: after a tx call on a steering-command frame made at clock value     *)
(* now, if a check reported a violation or controls were not allowed then  *)
(* desired_torque_last = 0, rt_torque_last = 0 and ts_last = now, and a    *)
(* violation makes the call return 0; with controls allowed a command of   *)
(* +2100 is denied and leaves desired_torque_last = 0.                     *)
C5_ResetOnViolationOrNoControls ==
  SteerTx =>
    /\ (call.violation \/ ~controls_allowed)
         => (desired_torque_last = 0 /\ rt_torque_last = 0 /\ ts_last = call.arg
             /\ call.arg = now)
    /\ call.violation => call.ret = 0
    /\ (controls_allowed /\ call.desired_torque = 2100)
         => (call.ret = 0 /\ desired_torque_last = 0)
    /\ (~controls_allowed /\ call.desired_torque # 0) => call.violation
    /\ (call.desired_torque > 2047 \/ call.desired_torque < -2047) => call.violation

C5_Witness ==
  /\ SteerTx /\ controls_allowed /\ ~relay_malfunction
  /\ msg_allowed(call.frame, SUBARU_L_TX_MSGS)
  /\ call.desired_torque = 2100
  /\ call.ret = 0
  /\ desired_torque_last = 0 /\ rt_torque_last = 0 /\ ts_last = now
  /\ ts_last # << 0, 0 >>

(* C6: after the rx hook processes a valid bus-0 cruise-status frame whose *)
(* engaged bit is 0, controls_allowed is false, whatever controls_allowed  *)
(* and cruise_engaged_prev were before.                                    *)
C6_CruiseOffExitsControls ==
  CruiseRx(call, 0) => ~controls_allowed

\* the frame that exits carries other bits set in byte 6
C6_Witness ==
  /\ CruiseRx(call, 0)
  /\ call.frame.data[7] = 253
  /\ ~controls_allowed /\ ~cruise_engaged_prev
  /\ desired_torque_last # 0

(* C7: controls_allowed changes from false to true only during an rx call  *)
(* on a valid bus-0 cruise-status frame whose engaged bit is 1 while        *)
(* cruise_engaged_prev is 0, and every such call leaves controls_allowed    *)
(* true.                                                                    *)
C7_EnterOnlyOnRisingEdge ==
  [][ /\ (~controls_allowed /\ controls_allowed')
           => (CruiseRx(call', 1) /\ ~cruise_engaged_prev)
      /\ (CruiseRx(call', 1) /\ ~cruise_engaged_prev) => controls_allowed' ]_vars

\* controls were entered again after an engaged=0 frame had exited them
C7_Witness ==
  /\ CruiseRx(call, 1)
  /\ controls_allowed /\ cruise_engaged_prev
  /\ desired_torque_last # 0

(* C8: while relay_malfunction is true every tx call returns 0 and every   *)
(* fwd call returns -1, for every frame and value of controls_allowed.     *)
(* (Neither hook changes relay_malfunction.)                               *)
C8_RelayMalfunctionDeniesAll ==
  relay_malfunction =>
    /\ call.op = "tx" => call.ret = 0
    /\ call.op = "fwd" => call.ret = -1

C8_Witness ==
  /\ relay_malfunction /\ controls_allowed
  /\ SteerTx /\ ~call.violation
  /\ call.frame.bus = 0 /\ call.frame.len = 8
  /\ call.desired_torque = 50
  /\ call.ret = 0

(* C9: with relay_malfunction false the fwd hook returns 2 from bus 0 for  *)
(* every address but 0x140, 0 from bus 2 for every address but 0x161 and   *)
(* 0x164, and -1 otherwise, in every state of the controls and limiter.    *)
C9_ForwardingTable ==
  (call.op = "fwd" /\ ~relay_malfunction) =>
    call.ret =
      IF call.arg = 0 THEN (IF call.frame.addr = 320 THEN -1 ELSE 2)
      ELSE IF call.arg = 2
           THEN (IF call.frame.addr \in { 353, 356 } THEN -1 ELSE 0)
      ELSE -1

C9_Witness ==
  /\ call.op = "fwd" /\ ~relay_malfunction
  /\ call.arg = 2 /\ call.frame.addr = 356
  /\ call.ret = -1
  /\ controls_allowed /\ desired_torque_last # 0

(* C10: the tx hook returns 0 for every frame whose (address, bus, length) *)
(* is not one of (0x161, 0, 8), (0x164, 0, 8), (0x140, 2, 8).              *)
C10_OffAllowListDenied ==
  ( /\ call.op = "tx"
    /\ << call.frame.addr, call.frame.bus, call.frame.len >>
         \notin { << 353, 0, 8 >>, << 356, 0, 8 >>, << 320, 2, 8 >> } )
  => call.ret = 0

C10_Witness ==
  /\ call.op = "tx" /\ call.ret = 0
  /\ call.frame.addr = 320 /\ call.frame.bus = 0 /\ call.frame.len = 8
  /\ ~relay_malfunction /\ controls_allowed

\* the module state the rx hook writes
rx_state ==
  << torque_driver, controls_allowed, cruise_engaged_prev, vehicle_moving,
     brake_pressed, gas_pressed, relay_malfunction >>

(* C11: when the address validator reports a frame invalid the rx hook     *)
(* returns invalid and leaves the driver-torque sample, controls_allowed,  *)
(* cruise_engaged_prev, vehicle_moving, brake_pressed and gas_pressed as   *)
(* they were; the value returned always equals the validator's verdict.    *)
C11_InvalidFrameChangesNothing ==
  [][ call'.op = "rx" =>
        /\ call'.ret = call'.arg
        /\ call'.arg = 0 => (call'.ret = 0 /\ UNCHANGED rx_state) ]_vars

\* an invalid cruise-off frame arrived while controls were allowed
C11_Witness ==
  /\ call.op = "rx" /\ call.arg = 0 /\ call.ret = 0
  /\ call.frame.addr = 324 /\ call.frame.bus = 0 /\ call.frame.data[7] = 253
  /\ controls_allowed /\ cruise_engaged_prev

(* C12: once relay_malfunction is true it stays true across every rx, tx   *)
(* and fwd call; init is the only call that makes it false, and init       *)
(* always does.                                                            *)
C12_RelayMalfunctionLatched ==
  [][ /\ (relay_malfunction /\ ~relay_malfunction') => call'.op = "init"
      /\ call'.op = "init" => ~relay_malfunction' ]_vars

\* the fault, latched by an earlier frame, is still there after controls
\* were entered
C12_Witness ==
  /\ relay_malfunction
  /\ CruiseRx(call, 1) /\ controls_allowed

(* C13: init is idempotent: every init leaves controls_allowed false and   *)
(* returns the same address-check table, and an init that directly follows *)
(* an init with the same parameter changes nothing.                        *)
C13_InitIdempotent ==
  [][ call'.op = "init" =>
        /\ ~controls_allowed'
        /\ call'.checks = subaru_l_rx_checks
        /\ (call.op = "init" /\ call.arg = call'.arg) => UNCHANGED vars ]_vars

C13_Witness ==
  /\ call.op = "init" /\ call.arg = 1
  /\ call.checks = subaru_l_rx_checks
  /\ ~controls_allowed /\ subaru_l_flip_driver_torque
  /\ cruise_engaged_prev /\ desired_torque_last # 0

\* the time from the limiter's anchor to a timer value, and the interval
SinceAnchor(ts, ts_l) == U32Sub(ts, ts_l)
Interval == U32Of(250000)

(* C14 as stated: whenever the real-time check runs (steering frame,       *)
(* controls allowed) at clock value t, no more than RT_INTERVAL has        *)
(* elapsed since the anchor was set: elapsed(t, ts_last) <= 250000.        *)
C14_AnchorFreshAtCheck ==
  [][ ( /\ call'.op = "tx" /\ call'.frame.addr = 356
        /\ controls_allowed )
      => ~U32Gt(SinceAnchor(call'.arg, ts_last), Interval) ]_vars

(* C14 amended: when a tx call on a steering frame returns, no more than   *)
(* RT_INTERVAL has elapsed between ts_last and the call's clock value; at  *)
(* the check itself the anchor may be older, by the time since the         *)
(* previous steering call.                                                 *)
C14_AnchorFreshOnReturn ==
  SteerTx => ~U32Gt(SinceAnchor(call.arg, ts_last), Interval)

\* an accepted command that did not move the anchor: it is older than the call
C14_Witness ==
  /\ SteerTx /\ controls_allowed /\ ~call.violation
  /\ call.ret = 1
  /\ ts_last # call.arg
  /\ ts_last # << 0, 0 >>

(* C15: on a tx call for a steering frame at clock value t with controls   *)
(* allowed and no violation, if more than RT_INTERVAL has elapsed since    *)
(* ts_last then rt_torque_last becomes the frame's torque and ts_last      *)
(* becomes t; otherwise both are unchanged.                                *)
C15_AnchorRollsWhenDue ==
  [][ ( /\ call'.op = "tx" /\ call'.frame.addr = 356
        /\ controls_allowed /\ ~call'.violation )
      => IF U32Gt(SinceAnchor(call'.arg, ts_last), Interval)
         THEN rt_torque_last' = call'.desired_torque /\ ts_last' = call'.arg
         ELSE UNCHANGED << rt_torque_last, ts_last >> ]_vars

\* the anchor rolled to a nonzero command, LongTick after it was last set
C15_Witness ==
  /\ SteerTx /\ controls_allowed /\ ~call.violation
  /\ call.desired_torque = 100
  /\ rt_torque_last = 100 /\ ts_last = call.arg

(* C16: desired_torque_last, rt_torque_last and ts_last are changed only   *)
(* by a tx call on a steering-command frame: init, rx, fwd and tx calls on *)
(* other addresses leave all three as they were.                           *)
C16_LimiterOwnedByTx ==
  [][ ~(call'.op = "tx" /\ call'.frame.addr = 356)
        => UNCHANGED << desired_torque_last, rt_torque_last, ts_last >> ]_vars

\* a tx call on another address returned with the limiter still loaded
C16_Witness ==
  /\ call.op = "tx" /\ call.frame.addr = 353 /\ call.ret = 1
  /\ desired_torque_last = 100 /\ rt_torque_last = 50

\* the rx hook has just processed a valid wheel-speed frame from bus 0
WheelRx(c) ==
  /\ c.op = "rx" /\ c.ret = 1
  /\ c.frame.addr = 212 /\ c.frame.bus = 0

\* the 16-bit corner speeds a wheel-speed frame carries: FR in bytes 2-3,
\* RL in bytes 4-5
WheelFR(c) == c.frame.data[3] + 256 * c.frame.data[4]
WheelRL(c) == c.frame.data[5] + 256 * c.frame.data[6]

(* C17: after the rx hook processes a valid bus-0 wheel-speed frame,       *)
(* vehicle_moving is true exactly when (FR + RL) / 2, truncated, exceeds   *)
(* 20; an average of 25 gives true, 15 gives false; no other call changes  *)
(* vehicle_moving.                                                         *)
C17_VehicleMovingFromWheelSpeed ==
  [][ /\ WheelRx(call')
           => (vehicle_moving' <=> ((WheelFR(call') + WheelRL(call')) \div 2) > 20)
      /\ (WheelRx(call') /\ WheelFR(call') = 30 /\ WheelRL(call') = 20)
           => vehicle_moving'
      /\ (WheelRx(call') /\ WheelFR(call') = 10 /\ WheelRL(call') = 20)
           => ~vehicle_moving'
      /\ (vehicle_moving' # vehicle_moving) => WheelRx(call') ]_vars

\* an average of exactly 20 (20 and 21, truncated) leaves the vehicle at rest
C17_Witness ==
  /\ WheelRx(call) /\ WheelFR(call) = 20 /\ WheelRL(call) = 21
  /\ ~vehicle_moving
  /\ brake_pressed /\ gas_pressed

(* C18: a steering frame sent with controls allowed and no violation, and  *)
(* denied only because it is off the allow-list or relay_malfunction is    *)
(* set, still sets desired_torque_last to its torque and rolls the         *)
(* real-time anchor when due, although the call returns 0.                 *)
C18_DeniedFrameMovesLimiter ==
  [][ ( /\ call'.op = "tx" /\ call'.frame.addr = 356
        /\ controls_allowed /\ ~call'.violation
        /\ (relay_malfunction
              \/ call'.frame.bus # 0 \/ call'.frame.len # 8) )
      => /\ call'.ret = 0
         /\ desired_torque_last' = call'.desired_torque
         /\ U32Gt(SinceAnchor(call'.arg, ts_last), Interval)
              => (rt_torque_last' = call'.desired_torque /\ ts_last' = call'.arg) ]_vars

\* a bus-1 frame, denied, has left its torque in the limiter
C18_Witness ==
  /\ SteerTx /\ controls_allowed /\ ~call.violation /\ ~relay_malfunction
  /\ call.frame.bus = 1 /\ call.ret = 0
  /\ call.desired_torque = 50
  /\ desired_torque_last = 50 /\ rt_torque_last = 50

(* C19: after every hook call desired_torque_last and rt_torque_last lie   *)
(* within [-2047, 2047].                                                   *)
C19_LimiterWithinMaxSteer ==
  /\ desired_torque_last >= -2047 /\ desired_torque_last <= 2047
  /\ rt_torque_last >= -2047 /\ rt_torque_last <= 2047

\* an out-of-range command, made with controls allowed, has been reset to 0
C19_Witness ==
  /\ SteerTx /\ controls_allowed /\ call.violation
  /\ call.desired_torque = -2100
  /\ desired_torque_last = 0 /\ rt_torque_last = 0

(* C20: init leaves cruise_engaged_prev, the driver-torque sample, the     *)
(* motion flags and the limiter as they were; so after an init made while  *)
(* cruise_engaged_prev was true a valid engaged=1 frame does not set       *)
(* controls_allowed: it stays false until an engaged=0 frame has been      *)
(* received and then an engaged=1 frame.                                   *)
C20_InitKeepsCruisePrev ==
  [][ /\ call'.op = "init"
           => UNCHANGED << cruise_engaged_prev, torque_driver, vehicle_moving,
                           brake_pressed, gas_pressed, desired_torque_last,
                           rt_torque_last, ts_last >>
      /\ (CruiseRx(call', 1) /\ cruise_engaged_prev /\ ~controls_allowed)
           => ~controls_allowed' ]_vars

\* an engaged=1 frame after init has not entered controls
C20_Witness ==
  /\ CruiseRx(call, 1)
  /\ ~controls_allowed /\ cruise_engaged_prev
  /\ vehicle_moving

====
